---- MODULE Spec2Model ----
(***************************************************************************)
(* A model of lib/token_util.py: HTCondor IDTOKEN generation (scramble,    *)
(* key derivation, claim-set assembly, issuance) and the exp/nbf validity  *)
(* check of a token string or token file.                                  *)
(*                                                                         *)
(* The functions of the module are stateless; the state below is the wall  *)
(* clock, the credential most recently issued, the arguments (and the      *)
(* environment) of the call under study, and the record of the most recent *)
(* call: what it was given, what it returned or raised, what it logged.    *)
(***************************************************************************)
EXTENDS Integers, Sequences, FiniteSets, TLC

VARIABLES now, cred, args, last

vars == <<now, cred, args, last>>

(***************************************************************************)
(* Bounds of the model.                                                    *)
(***************************************************************************)
\* the wall clock runs over 0..MaxTime (seconds)
MaxTime == 3
\* longest byte string handed to simple_scramble
MaxLen == 5
\* most whitespace characters put before, and after, a token text
MaxPad == 1

(***************************************************************************)
(* Python values.  None, int and str are kept apart by the field name, so  *)
(* that a truth test (`if not kid`, `if duration`) is computed as Python   *)
(* computes it.                                                            *)
(***************************************************************************)
PyNone == [none |-> TRUE]
PyInt(n) == [int |-> n]
PyStr(s) == [str |-> s]

IsNone(x) == "none" \in DOMAIN x
IsInt(x) == "int" \in DOMAIN x
IsStr(x) == "str" \in DOMAIN x

\* bool(x) for None, an int, a str
truthy(x) ==
    IF IsNone(x) THEN FALSE
    ELSE IF IsInt(x) THEN x.int # 0
    ELSE x.str # ""

(***************************************************************************)
(* simple_scramble                                                         *)
(***************************************************************************)
DEADBEEF == <<222, 173, 190, 239>>

\* a ^ b on non-negative integers
RECURSIVE xor(_, _)
xor(a, b) ==
    IF a = 0 THEN b
    ELSE IF b = 0 THEN a
    ELSE 2 * xor(a \div 2, b \div 2) + (((a % 2) + (b % 2)) % 2)

\* the body of the for loop, idx counting from 0 as in the source
RECURSIVE scramble_loop(_, _, _)
scramble_loop(in_buf, idx, out_buf) ==
    IF idx >= Len(in_buf) THEN out_buf
    ELSE scramble_loop(in_buf, idx + 1,
                       Append(out_buf, xor(in_buf[idx + 1], DEADBEEF[(idx % 4) + 1])))

\* a slip in the pattern index: the pattern is cycled over three bytes
simple_scramble_mod3(in_buf) ==
    [i \in 1..Len(in_buf) |-> xor(in_buf[i], DEADBEEF[((i - 1) % 3) + 1])]

simple_scramble(in_buf) == scramble_loop(in_buf, 0, <<>>)


(***************************************************************************)
(* derive_master_key.  HKDF-SHA256 is kept symbolic: the key is the tuple  *)
(* of everything the derivation reads, so two keys are equal exactly when  *)
(* the input key material is (salt, info and length are fixed).            *)
(***************************************************************************)
KeyLength == 32

derive_master_key(password) ==
    [kdf |-> "HKDF-SHA256", length |-> KeyLength, salt |-> "htcondor",
     info |-> "master jwt", ikm |-> password]

(***************************************************************************)
(* Token texts.  A text is a run of whitespace, a body, a run of           *)
(* whitespace; the body is nothing, something that is no JWT, or the       *)
(* compact serialisation of a header and a claim set with its signature.   *)
(***************************************************************************)
EmptyBody == [kind |-> "empty"]
GarbageBody == [kind |-> "garbage"]

Text(pre, body, post) == [pre |-> pre, body |-> body, post |-> post]

IsText(x) == "body" \in DOMAIN x

\* str.strip()
strip(text) == [text EXCEPT !.pre = 0, !.post = 0]

\* bool(token_str): only the empty string (and None, and 0) is false
text_truthy(x) ==
    IF IsText(x) THEN ~(x.pre = 0 /\ x.post = 0 /\ x.body = EmptyBody)
    ELSE truthy(x)

\* jwt.encode(payload, key, algorithm="HS256", headers={"kid": kid})
jwt_encode(payload, key, kid) ==
    Text(0, [kind |-> "jwt",
             header |-> [alg |-> "HS256", typ |-> "JWT", kid |-> kid],
             payload |-> payload,
             signature |-> [hmac |-> "SHA256", key |-> key]], 0)

(***************************************************************************)
(* sign_token                                                              *)
(***************************************************************************)
\* `if duration is not None`: a zero duration gets an exp claim
claims_exp_for_zero(identity, issuer, duration, scope, iat, jti) ==
    LET payload == [sub |-> identity, iat |-> PyInt(iat), nbf |-> PyInt(iat),
                    jti |-> PyStr(jti), iss |-> issuer]
        with_exp == IF ~IsNone(duration)
                    THEN payload @@ ("exp" :> PyInt(iat + duration.int))
                    ELSE payload
    IN IF truthy(scope) THEN with_exp @@ ("scope" :> scope) ELSE with_exp

\* the scope claim is dropped
claims_without_scope(identity, issuer, duration, scope, iat, jti) ==
    LET payload == [sub |-> identity, iat |-> PyInt(iat), nbf |-> PyInt(iat),
                    jti |-> PyStr(jti), iss |-> issuer]
    IN IF truthy(duration)
       THEN payload @@ ("exp" :> PyInt(iat + duration.int))
       ELSE payload

\* the claim set sign_token assembles at time iat with uuid4().hex = jti
claims(identity, issuer, duration, scope, iat, jti) ==
    LET payload == [sub |-> identity, iat |-> PyInt(iat), nbf |-> PyInt(iat),
                    jti |-> PyStr(jti), iss |-> issuer]
        with_exp == IF truthy(duration)
                    THEN payload @@ ("exp" :> PyInt(iat + duration.int))
                    ELSE payload
    IN IF truthy(scope) THEN with_exp @@ ("scope" :> scope) ELSE with_exp

sign_token(identity, issuer, kid, master_key, duration, scope, clock, uuid) ==
    jwt_encode(claims(identity, issuer, duration, scope, clock, uuid), master_key, kid)

(***************************************************************************)
(* token_str_expired and token_file_expired                                *)
(***************************************************************************)
\* verify_exp is off
jwt_decode_no_exp(token, clock) ==
    IF token.body.kind # "jwt" THEN "DecodeError"
    ELSE LET payload == token.body.payload
         IN IF "nbf" \in DOMAIN payload /\ ~IsInt(payload.nbf) THEN "DecodeError"
            ELSE IF "nbf" \in DOMAIN payload /\ payload.nbf.int > clock
                 THEN "ImmatureSignatureError"
            ELSE "ok"

\* jwt.decode(token, options={verify_signature: False, verify_aud: False,
\* verify_exp: True, verify_nbf: True}) at time clock: "ok", or the name of
\* the exception it raises.  The signature is not looked at; nbf is
\* validated before exp; a claim that is no integer is a DecodeError.
jwt_decode(token, clock) ==
    IF token.body.kind # "jwt" THEN "DecodeError"
    ELSE LET payload == token.body.payload
         IN IF "nbf" \in DOMAIN payload /\ ~IsInt(payload.nbf) THEN "DecodeError"
            ELSE IF "nbf" \in DOMAIN payload /\ payload.nbf.int > clock
                 THEN "ImmatureSignatureError"
            ELSE IF "exp" \in DOMAIN payload /\ ~IsInt(payload.exp) THEN "DecodeError"
            ELSE IF "exp" \in DOMAIN payload /\ payload.exp.int <= clock
                 THEN "ExpiredSignatureError"
            ELSE "ok"

\* what the try block of token_str_expired ends with: token_str.strip()
\* raises AttributeError on a value that is no string
decode_outcome(token_str, clock) ==
    IF ~IsText(token_str) THEN "AttributeError"
    ELSE jwt_decode(strip(token_str), clock)

\* only the two named exceptions are caught
token_str_expired_two_handlers(token_str, clock) ==
    IF ~text_truthy(token_str)
    THEN [ret |-> TRUE, raised |-> "none", log |-> <<"debug">>]
    ELSE LET outcome == decode_outcome(token_str, clock)
         IN CASE outcome = "ok" ->
                   [ret |-> FALSE, raised |-> "none", log |-> <<>>]
              [] outcome = "ExpiredSignatureError" ->
                   [ret |-> TRUE, raised |-> "none", log |-> <<"error">>]
              [] outcome = "DecodeError" ->
                   [ret |-> TRUE, raised |-> "none", log |-> <<"error", "debug">>]
              [] OTHER ->
                   [ret |-> TRUE, raised |-> outcome, log |-> <<>>]

\* the result of the call: what it returns, what it raises ("none": nothing),
\* and the levels of the messages it logs, in order
token_str_expired(token_str, clock) ==
    IF ~text_truthy(token_str)
    THEN [ret |-> TRUE, raised |-> "none", log |-> <<"debug">>]
    ELSE LET outcome == decode_outcome(token_str, clock)
         IN CASE outcome = "ok" ->
                   [ret |-> FALSE, raised |-> "none", log |-> <<>>]
              [] outcome = "ExpiredSignatureError" ->
                   [ret |-> TRUE, raised |-> "none", log |-> <<"error">>]
              [] outcome = "DecodeError" ->
                   [ret |-> TRUE, raised |-> "none", log |-> <<"error", "debug">>]
              [] OTHER ->
                   [ret |-> TRUE, raised |-> "none", log |-> <<"exception", "debug">>]

\* what open() and read() give for a file
FileMissing == [err |-> "FileNotFoundError"]
FileDenied == [err |-> "PermissionError"]
FileWith(data) == [data |-> data]

IsReadable(file) == "data" \in DOMAIN file

\* a missing file is reported as valid
token_file_expired_missing_ok(file, clock) ==
    IF ~IsReadable(file)
    THEN IF file.err = "FileNotFoundError"
         THEN [ret |-> FALSE, raised |-> "none", log |-> <<"warning">>]
         ELSE [ret |-> TRUE, raised |-> "none", log |-> <<"exception">>]
    ELSE token_str_expired(strip(file.data), clock)

token_file_expired(file, clock) ==
    IF ~IsReadable(file)
    THEN IF file.err = "FileNotFoundError"
         THEN [ret |-> TRUE, raised |-> "none", log |-> <<"warning">>]
         ELSE [ret |-> TRUE, raised |-> "none", log |-> <<"exception">>]
    ELSE LET r == token_str_expired(strip(file.data), clock)
         IN IF r.raised = "none" THEN r
            ELSE [ret |-> TRUE, raised |-> "none", log |-> r.log \o <<"exception">>]

(***************************************************************************)
(* create_and_sign_token                                                   *)
(***************************************************************************)
\* the output of `condor_config_val TRUST_DOMAIN` is a sequence of words,
\* blanks, tabs, commas and newlines; iexe_cmd returns it, or raises
CmdRaises == [err |-> "CalledProcessError"]
CmdPrints(out) == [out |-> out]

Whitespace == {" ", "\t", "\n"}

RECURSIVE lstrip(_)
lstrip(s) == IF s # <<>> /\ Head(s) \in Whitespace THEN lstrip(Tail(s)) ELSE s

RECURSIVE rstrip(_)
rstrip(s) ==
    IF s # <<>> /\ s[Len(s)] \in Whitespace
    THEN rstrip(SubSeq(s, 1, Len(s) - 1))
    ELSE s

\* str.strip() on a command's output
output_strip(s) == rstrip(lstrip(s))

\* re.split(" |,|\t", full_issuer)[0]
RECURSIVE first_issuer(_)
first_issuer(s) ==
    IF s = <<>> \/ Head(s) \in {" ", ",", "\t"} THEN ""
    ELSE Head(s) \o first_issuer(Tail(s))

\* os.path.basename on a path given as its components: the text after the
\* last separator (empty when the path ends with one)
basename(path) == path[Len(path)]

\* f"{os.getlogin()}@{socket.gethostname()}"; both calls are taken to
\* return a name
default_identity == PyStr("frontend" \o "@" \o "fe.example.org")

\* the password files of the host, by file name: POOL and worker1 hold the
\* same secret, empty holds no byte, a path ending in a separator names a
\* directory, any other file is absent
read_binary(path) ==
    CASE basename(path) \in {"POOL", "worker1"} -> FileWith(<<104, 117, 110>>)
      [] basename(path) = "empty" -> FileWith(<<>>)
      [] basename(path) = "" -> [err |-> "IsADirectoryError"]
      [] OTHER -> FileMissing

\* the doubling rule is dropped
key_material_single(kid, password) == password

\* `if kid == "POOL": password += password`
key_material(kid, password) ==
    IF kid = PyStr("POOL") THEN password \o password ELSE password

\* The result of the call: what it returns (None when it raises), what it
\* raises, the levels it logs, how often it ran the trust-domain lookup,
\* whether it opened the password file, the inputs it handed to
\* derive_master_key, and whether it called sign_token.
create_and_sign_token(pwd_file, issuer, identity, kid, duration, scope, lookup, clock, uuid) ==
    LET kid1 == IF ~truthy(kid) THEN PyStr(basename(pwd_file)) ELSE kid
        looked == ~truthy(issuer)
        full_issuer == IF looked /\ "out" \in DOMAIN lookup
                       THEN output_strip(lookup.out) ELSE <<>>
        issuer1 == IF looked /\ full_issuer # <<>>
                   THEN PyStr(first_issuer(full_issuer)) ELSE issuer
        log == IF looked /\ full_issuer = <<>> THEN <<"warning">> ELSE <<>>
        identity1 == IF ~truthy(identity) THEN default_identity ELSE identity
        file == read_binary(pwd_file)
    IN IF looked /\ "err" \in DOMAIN lookup
       THEN [ret |-> PyNone, raised |-> lookup.err, log |-> <<>>, lookups |-> 1,
             opened |-> FALSE, derived |-> <<>>, signed |-> FALSE]
       ELSE IF ~IsReadable(file)
       THEN [ret |-> PyNone, raised |-> file.err, log |-> log,
             lookups |-> IF looked THEN 1 ELSE 0,
             opened |-> TRUE, derived |-> <<>>, signed |-> FALSE]
       ELSE LET password == key_material(kid1, simple_scramble(file.data))
                master_key == derive_master_key(password)
            IN [ret |-> sign_token(identity1, issuer1, kid1, master_key,
                                   duration, scope, clock, uuid),
                raised |-> "none", log |-> log,
                lookups |-> IF looked THEN 1 ELSE 0,
                opened |-> TRUE, derived |-> <<password>>, signed |-> TRUE]

(***************************************************************************)
(* Inputs                                                                  *)
(***************************************************************************)
\* byte values the scrambled strings are drawn from: 0, 'h', the pattern's
\* first and last byte, 255
Bytes == {0, 104, 222, 239, 255}

RECURSIVE SeqsUpTo(_, _)
SeqsUpTo(S, n) ==
    IF n = 0 THEN {<<>>}
    ELSE LET shorter == SeqsUpTo(S, n - 1)
         IN shorter \cup {Append(s, b) : s \in {t \in shorter : Len(t) = n - 1}, b \in S}

ByteStrings == SeqsUpTo(Bytes, MaxLen)

Pads == 0..MaxPad

\* uuid.uuid4().hex
UUIDs == {"3f2a", "9c41"}

\* claim sets of tokens that come from elsewhere: exp and nbf each absent,
\* an instant, or (exp) no number at all
ForeignPayloads ==
    LET exps == {<<>>} \cup {<<PyInt(1)>>, <<PyInt(2)>>, <<PyStr("soon")>>}
        nbfs == {<<>>} \cup {<<PyInt(1)>>, <<PyInt(2)>>}
        base == [sub |-> PyStr("vofrontend@fe.example.org")]
    IN {(IF e = <<>> THEN base ELSE base @@ ("exp" :> e[1]))
            @@ (IF n = <<>> THEN << >> ELSE ("nbf" :> n[1])) : e \in exps, n \in nbfs}

ForeignBodies ==
    {EmptyBody, GarbageBody}
        \cup {jwt_encode(p, derive_master_key(<<1>>), PyStr("POOL")).body : p \in ForeignPayloads}

\* what token_str_expired is called with: texts, None, and integers
CheckInputs ==
    {Text(pre, b, post) : pre \in Pads, b \in ForeignBodies, post \in Pads}
        \cup {PyNone, PyInt(0), PyInt(5)}

\* what token_file_expired finds at the path it is given
CheckFiles ==
    {FileMissing, FileDenied}
        \cup {FileWith(Text(pre, b, post)) : pre \in Pads, b \in ForeignBodies, post \in Pads}

Durations == {PyNone, PyInt(0), PyInt(1), PyInt(2), PyInt(-1)}
Scopes == {PyNone, PyStr(""), PyStr("condor:/READ")}
Issuers == {PyNone, PyStr(""), PyStr("pool.example.org")}
Identities == {PyNone, PyStr("vofrontend@fe.example.org")}
KeyIds == {PyNone, PyStr(""), PyStr("POOL"), PyStr("worker1")}

PasswordFiles ==
    {<<"passwords.d", "POOL">>, <<"passwords.d", "worker1">>, <<"passwords.d", "empty">>,
     <<"passwords.d", "gone">>, <<"passwords.d", "">>}

Lookups ==
    {CmdRaises}
        \cup {CmdPrints(out) : out \in {<<>>, <<"\n">>, <<" ", "\t", "\n">>,
                                        <<"pool.example.org", "\n">>,
                                        <<"pool.example.org", " ", "other.example.org", "\n">>,
                                        <<"pool.example.org", ",", "other.example.org">>,
                                        <<",", "pool.example.org", "\n">>}}

IssueArgs ==
    [fn : {"create_and_sign_token"}, pwd_file : PasswordFiles, issuer : Issuers,
     identity : Identities, kid : KeyIds, duration : {PyNone, PyInt(0), PyInt(2)},
     scope : Scopes, lookup : Lookups]

NoCred == [none |-> TRUE]

(***************************************************************************)
(* The clock                                                               *)
(***************************************************************************)
Tick ==
    /\ now < MaxTime
    /\ now' = now + 1
    /\ UNCHANGED <<cred, args, last>>

(***************************************************************************)
(* Issuing with sign_token and checking what was issued, as time passes.   *)
(***************************************************************************)
Init ==
    /\ now = 0
    /\ cred = NoCred
    /\ args = [fn |-> "none"]
    /\ last = [op |-> "none"]

SignToken ==
    /\ \E identity \in Identities \ {PyNone}, issuer \in Issuers \ {PyNone},
          duration \in Durations, scope \in Scopes, uuid \in UUIDs :
          LET kid == PyStr("POOL")
              token == sign_token(identity, issuer, kid, derive_master_key(<<1>>),
                                  duration, scope, now, uuid)
          IN /\ cred' = [token |-> token, duration |-> duration, iat |-> now]
             /\ last' = [op |-> "sign_token", identity |-> identity, issuer |-> issuer,
                         kid |-> kid, duration |-> duration, scope |-> scope,
                         at |-> now, ret |-> token]
    /\ UNCHANGED <<now, args>>

\* token_str_expired on the issued credential, as it is or as read with
\* whitespace around it
CheckIssued ==
    /\ cred # NoCred
    /\ \E pre \in Pads, post \in Pads :
          LET token_str == Text(pre, cred.token.body, post)
          IN last' = [op |-> "token_str_expired", token_str |-> token_str, at |-> now]
                        @@ token_str_expired(token_str, now)
    /\ UNCHANGED <<now, cred, args>>

Next == Tick \/ SignToken \/ CheckIssued

Spec == Init /\ [][Next]_vars

(***************************************************************************)
(* Checking a token string, or a token file, that comes from elsewhere.    *)
(***************************************************************************)
InitCheck ==
    /\ now = 0
    /\ cred = NoCred
    /\ args \in {[fn |-> "token_str_expired", token_str |-> x] : x \in CheckInputs}
                  \cup {[fn |-> "token_file_expired", token_file |-> f] : f \in CheckFiles}
    /\ last = [op |-> "none"]

TokenStrExpired ==
    /\ args.fn = "token_str_expired"
    /\ last' = [op |-> "token_str_expired", token_str |-> args.token_str, at |-> now]
                  @@ token_str_expired(args.token_str, now)
    /\ UNCHANGED <<now, cred, args>>

TokenFileExpired ==
    /\ args.fn = "token_file_expired"
    /\ last' = [op |-> "token_file_expired", token_file |-> args.token_file, at |-> now]
                  @@ token_file_expired(args.token_file, now)
    /\ UNCHANGED <<now, cred, args>>

NextCheck == Tick \/ TokenStrExpired \/ TokenFileExpired

SpecCheck == InitCheck /\ [][NextCheck]_vars

(***************************************************************************)
(* Issuing with create_and_sign_token.                                     *)
(***************************************************************************)
InitIssue ==
    /\ now = 0
    /\ cred = NoCred
    /\ args \in IssueArgs
    /\ last = [op |-> "none"]

CreateAndSignToken ==
    /\ args.fn = "create_and_sign_token"
    /\ \E uuid \in UUIDs :
          last' = [op |-> "create_and_sign_token", at |-> now]
                     @@ create_and_sign_token(args.pwd_file, args.issuer, args.identity,
                                              args.kid, args.duration, args.scope,
                                              args.lookup, now, uuid)
    /\ UNCHANGED <<now, cred, args>>

NextIssue == Tick \/ CreateAndSignToken

SpecIssue == InitIssue /\ [][NextIssue]_vars

(***************************************************************************)
(* simple_scramble on a byte string, and on the result of that scramble    *)
(* (the descrambling direction).                                           *)
(***************************************************************************)
InitScramble ==
    /\ now = 0
    /\ cred = NoCred
    /\ args \in {[fn |-> "simple_scramble", in_buf |-> b] : b \in ByteStrings}
    /\ last = [op |-> "none"]

SimpleScramble ==
    /\ args.fn = "simple_scramble"
    /\ last.op = "none"
    /\ last' = [op |-> "simple_scramble", in_buf |-> args.in_buf,
                ret |-> simple_scramble(args.in_buf), again |-> FALSE]
    /\ UNCHANGED <<now, cred, args>>

ScrambleAgain ==
    /\ last.op = "simple_scramble"
    /\ ~last.again
    /\ last' = [op |-> "simple_scramble", in_buf |-> last.ret,
                ret |-> simple_scramble(last.ret), again |-> TRUE]
    /\ UNCHANGED <<now, cred, args>>

NextScramble == SimpleScramble \/ ScrambleAgain

SpecScramble == InitScramble /\ [][NextScramble]_vars

(***************************************************************************)
(* Properties: the validity check                                          *)
(***************************************************************************)
\* the input is no text, or is empty, whitespace only, or no JWT
Unparsable(x) ==
    \/ ~IsText(x)
    \/ x.body.kind # "jwt"
    \/ \E c \in {"exp", "nbf"} :
          c \in DOMAIN x.body.payload /\ ~IsInt(x.body.payload[c])

\* the exp claim is present and the instant t is after it
ExpPassed(x, t) == "exp" \in DOMAIN x.body.payload /\ t > x.body.payload.exp.int

\* the nbf claim is present and the instant t is before it
NbfInFuture(x, t) == "nbf" \in DOMAIN x.body.payload /\ t < x.body.payload.nbf.int

CheckedIssued ==
    /\ cred # NoCred
    /\ last.op = "token_str_expired"
    /\ strip(last.token_str) = cred.token

\* C2, as stated: a credential signed with duration = D is not expired when
\* checked with the clock still at iat, and is expired at every check after
\* iat + D.
C2_AsStated ==
    (CheckedIssued /\ IsInt(cred.duration)) =>
        /\ last.at = cred.iat => last.ret = FALSE
        /\ last.at > cred.iat + cred.duration.int => last.ret = TRUE

\* C2, amended: the same for an integer duration D > 0.
C2_PositiveDuration ==
    (CheckedIssued /\ IsInt(cred.duration) /\ cred.duration.int > 0) =>
        /\ last.at = cred.iat => last.ret = FALSE
        /\ last.at > cred.iat + cred.duration.int => last.ret = TRUE

\* a credential with a positive duration was checked after iat + D
C2_Witness ==
    /\ CheckedIssued
    /\ IsInt(cred.duration)
    /\ cred.duration.int > 0
    /\ last.at > cred.iat + cred.duration.int
    /\ last.ret = TRUE

\* C3: a credential signed with no duration (None, or zero) has no exp
\* claim and is not expired at any check at or after its issuance.
C3_NoDurationNeverExpires ==
    (cred # NoCred /\ (IsNone(cred.duration) \/ cred.duration = PyInt(0))) =>
        /\ "exp" \notin DOMAIN cred.token.body.payload
        /\ CheckedIssued => (last.at >= cred.iat /\ last.ret = FALSE)

\* a credential signed with duration 0 was checked when the clock had run out
C3_Witness ==
    /\ CheckedIssued
    /\ cred.duration = PyInt(0)
    /\ last.at = MaxTime
    /\ cred.iat = 0
    /\ last.ret = FALSE

\* what C10 says of a claim set, "supplied" being decided by Supplied
ClaimsFollowInputs(Supplied(_)) ==
    LET payload == last.ret.body.payload
        timed == IsInt(last.duration) /\ last.duration.int # 0
    IN /\ payload.nbf = payload.iat
       /\ payload.iat = PyInt(last.at)
       /\ "exp" \in DOMAIN payload <=> timed
       /\ timed => payload.exp = PyInt(last.at + last.duration.int)
       /\ "scope" \in DOMAIN payload <=> Supplied(last.scope)
       /\ Supplied(last.scope) => payload.scope = last.scope

\* C10, as stated: nbf = iat; exp is present exactly when a duration is
\* supplied and non-zero, and is then iat + duration; scope is present
\* exactly when a scope string is supplied, and is then that string.
C10_AsStated ==
    last.op = "sign_token" => ClaimsFollowInputs(LAMBDA s : ~IsNone(s))

\* C10, amended: scope is present exactly when a non-empty scope string is
\* supplied; the rest as stated.
C10_NonEmptyScope ==
    last.op = "sign_token" => ClaimsFollowInputs(LAMBDA s : ~IsNone(s) /\ s # PyStr(""))

\* a token was signed with a duration and a scope
C10_Witness ==
    /\ last.op = "sign_token"
    /\ last.duration = PyInt(2)
    /\ last.scope = PyStr("condor:/READ")
    /\ last.ret.body.payload.exp = PyInt(last.at + 2)
    /\ last.ret.body.payload.scope = PyStr("condor:/READ")

(***************************************************************************)
(* Properties: create_and_sign_token                                       *)
(***************************************************************************)
Issued == last.op = "create_and_sign_token"

\* the lookup ran and printed nothing but whitespace
LookupEmpty == "out" \in DOMAIN args.lookup /\ output_strip(args.lookup.out) = <<>>

\* the call returned a credential whose iss claim is the empty string
ReturnsEmptyIssuer ==
    /\ last.raised = "none"
    /\ IsText(last.ret)
    /\ last.ret.body.payload.iss = PyStr("")

\* C5: when the password file cannot be read, the call raises the read
\* failure itself and returns nothing; no key is derived and sign_token is
\* not called, whatever the other arguments are.
C5_ReadFailurePropagates ==
    (Issued /\ ~IsReadable(read_binary(args.pwd_file))) =>
        /\ last.raised = read_binary(args.pwd_file).err
        /\ IsNone(last.ret)
        /\ last.derived = <<>>
        /\ ~last.signed

\* C6: with no issuer supplied and a lookup that prints nothing, the call
\* logs a warning and returns a credential whose iss is the empty string.
C6_EmptyLookupEmptyIssuer ==
    (Issued /\ IsNone(args.issuer) /\ LookupEmpty /\ IsReadable(read_binary(args.pwd_file))) =>
        /\ \E i \in DOMAIN last.log : last.log[i] = "warning"
        /\ ReturnsEmptyIssuer

\* C7: with no issuer supplied and a lookup that raises, the call runs the
\* lookup once, logs a warning, reads the password file and returns a
\* credential with an empty issuer.
C7_LookupFailureAbsorbed ==
    (Issued /\ IsNone(args.issuer) /\ args.lookup = CmdRaises
        /\ IsReadable(read_binary(args.pwd_file))) =>
        /\ last.lookups = 1
        /\ last.opened
        /\ \E i \in DOMAIN last.log : last.log[i] = "warning"
        /\ ReturnsEmptyIssuer

\* what C9 says of a call that returned, the key identifier in effect being
\* kid_in_effect
KeyMaterialFollows(kid_in_effect) ==
    LET secret == simple_scramble(read_binary(args.pwd_file).data)
    IN /\ last.derived = <<IF kid_in_effect = PyStr("POOL") THEN secret \o secret ELSE secret>>
       /\ last.ret.body.header.kid = kid_in_effect
       /\ last.ret.body.signature.key = derive_master_key(last.derived[1])
       /\ (secret # <<>> /\ kid_in_effect # PyStr("POOL")) => last.derived[1] # secret \o secret

\* C9, as stated: the key derivation is fed the scrambled secret twice over
\* exactly when the key identifier in effect (the supplied kid, or the file
\* name of the password file when none is supplied) is "POOL"; that
\* identifier is the one in the header; and for a non-empty secret POOL and
\* any other identifier feed different bytes.
C9_AsStated ==
    (Issued /\ last.raised = "none") =>
        KeyMaterialFollows(IF IsNone(args.kid) THEN PyStr(basename(args.pwd_file)) ELSE args.kid)

\* C9, amended: the key identifier in effect is the supplied kid when it is
\* a non-empty string, and the file name of the password file otherwise.
C9_NonEmptyKid ==
    (Issued /\ last.raised = "none") =>
        KeyMaterialFollows(IF IsNone(args.kid) \/ args.kid = PyStr("")
                           THEN PyStr(basename(args.pwd_file)) ELSE args.kid)

\* a token was issued under kid POOL from a file of another name
C9_Witness ==
    /\ Issued
    /\ args.kid = PyStr("POOL")
    /\ basename(args.pwd_file) = "worker1"
    /\ last.raised = "none"
    /\ Len(last.derived[1]) = 2 * Len(read_binary(args.pwd_file).data)
    /\ last.ret.body.header.kid = PyStr("POOL")

(***************************************************************************)
(* Properties: simple_scramble                                             *)
(***************************************************************************)
\* C8: simple_scramble is total, length-preserving and self-inverse: the
\* result has the length of the input, its byte i (from 0) is the input's
\* byte i XOR (0xDE, 0xAD, 0xBE, 0xEF)[i mod 4], and scrambling the result of
\* a scramble gives back the original byte string (the empty one included).
C8_ScrambleSelfInverse ==
    last.op = "simple_scramble" =>
        /\ Len(last.ret) = Len(last.in_buf)
        /\ \A i \in 0..(Len(last.in_buf) - 1) :
              /\ last.ret[i + 1] \in 0..255
              /\ last.ret[i + 1] =
                    xor(last.in_buf[i + 1],
                        CASE i % 4 = 0 -> 222 [] i % 4 = 1 -> 173
                          [] i % 4 = 2 -> 190 [] OTHER -> 239)
        /\ last.again => last.ret = args.in_buf

\* a string long enough to wrap the pattern has been scrambled twice
C8_Witness ==
    /\ last.op = "simple_scramble"
    /\ last.again
    /\ Len(args.in_buf) = 5
    /\ last.ret = args.in_buf
    /\ last.in_buf # args.in_buf

====
